---- MODULE Spec2Model ----
(***************************************************************************)
(* A model of goequal's generator (src/equal/equal.go): the recursive      *)
(* synthesis of one Equal<T> function per named type, run as a machine     *)
(* with an explicit control stack (one frame per pending call or return)   *)
(* and a stack of returned fragments.                                      *)
(*                                                                         *)
(* Go strings that the code scans (variable names, path expressions) are   *)
(* sequences of one-character strings.  Generated statements are kept as   *)
(* one record per Sprintf template; the expressions inside them are the    *)
(* character sequences the code builds.                                    *)
(***************************************************************************)
EXTENDS Integers, Sequences, FiniteSets, TLC

(***************************************************************************)
(* Characters and strings                                                  *)
(***************************************************************************)
Digits == {"0", "1", "2", "3", "4", "5", "6", "7", "8", "9"}

Letters ==
    {"a", "b", "c", "d", "e", "f", "g", "h", "i", "j", "k", "l", "m",
     "n", "o", "p", "q", "r", "s", "t", "u", "v", "w", "x", "y", "z",
     "A", "B", "C", "D", "E", "F", "G", "H", "I", "J", "K", "L", "M",
     "N", "O", "P", "Q", "R", "S", "T", "U", "V", "W", "X", "Y", "Z"}

DigitVal(c) ==
    CASE c = "0" -> 0 [] c = "1" -> 1 [] c = "2" -> 2 [] c = "3" -> 3
      [] c = "4" -> 4 [] c = "5" -> 5 [] c = "6" -> 6 [] c = "7" -> 7
      [] c = "8" -> 8 [] OTHER -> 9

DigitChar(d) ==
    CASE d = 0 -> "0" [] d = 1 -> "1" [] d = 2 -> "2" [] d = 3 -> "3"
      [] d = 4 -> "4" [] d = 5 -> "5" [] d = 6 -> "6" [] d = 7 -> "7"
      [] d = 8 -> "8" [] OTHER -> "9"

\* Go's s[a:b] with 0-based, half-open bounds.
Slice0(s, a, b) == SubSeq(s, a + 1, b)

\* Go's s[i], 0-based.
At0(s, i) == s[i + 1]

\* strconv.Atoi on a string of decimal digits: -1 stands for the error result.
RECURSIVE AtoiAcc(_, _)
AtoiAcc(s, acc) ==
    IF s = <<>> THEN acc
    ELSE IF Head(s) \notin Digits THEN -1
    ELSE AtoiAcc(Tail(s), acc * 10 + DigitVal(Head(s)))

Atoi(s) == IF s = <<>> THEN -1 ELSE AtoiAcc(s, 0)

\* fmt's %d of a non-negative integer.
RECURSIVE Itoa(_)
Itoa(n) == IF n < 10 THEN <<DigitChar(n)>> ELSE Itoa(n \div 10) \o <<DigitChar(n % 10)>>

\* strings.LastIndex(s, sub), 0-based, -1 when absent.
RECURSIVE LastIndexFrom(_, _, _)
LastIndexFrom(s, sub, i) ==
    IF i < 0 THEN -1
    ELSE IF Slice0(s, i, i + Len(sub)) = sub THEN i
    ELSE LastIndexFrom(s, sub, i - 1)

LastIndex(s, sub) == LastIndexFrom(s, sub, Len(s) - Len(sub))

Contains(s, c) == \E i \in 1..Len(s) : s[i] = c

(***************************************************************************)
(* Naming engine: findNextUsableIndex, findLastUnpairedParantheses,        *)
(* getNames                                                                *)
(***************************************************************************)

\* The loop of findNextUsableIndex from position i (0-based) downwards, with
\* rsb the last right square bracket seen (-1: none).
RECURSIVE FindNextLoop(_, _, _, _)
FindNextLoop(name, searched, i, rsb) ==
    IF i <= 0 THEN 1
    ELSE IF At0(name, i) = "]" /\ At0(name, i - 1) # "["
         THEN FindNextLoop(name, searched, i - (Len(searched) - 1) - 1, i)
    ELSE IF rsb > -1 /\ Slice0(name, i, i + Len(searched)) = searched
            /\ Atoi(Slice0(name, i + Len(searched), rsb)) # -1
         THEN Atoi(Slice0(name, i + Len(searched), rsb)) + 1
    ELSE FindNextLoop(name, searched, i - 1, rsb)

FindNextUsableIndex(name, key) == FindNextLoop(name, <<"[">> \o key, Len(name) - 1, -1)

\* The stack of open parentheses after reading s[0..i-1]; a closing one pops.
\* (Go panics when it pops an empty stack; a path built by the generator
\* never closes a parenthesis it has not opened.)
RECURSIVE UnpairedStarts(_, _, _)
UnpairedStarts(s, i, starts) ==
    IF i >= Len(s) THEN starts
    ELSE IF At0(s, i) = "(" THEN UnpairedStarts(s, i + 1, Append(starts, i))
    ELSE IF At0(s, i) = ")" /\ starts # <<>>
         THEN UnpairedStarts(s, i + 1, SubSeq(starts, 1, Len(starts) - 1))
    ELSE UnpairedStarts(s, i + 1, starts)

FindLastUnpairedParantheses(s) ==
    LET starts == UnpairedStarts(s, 0, <<>>)
    IN  IF Len(starts) > 0 THEN starts[Len(starts)] ELSE -1

\* The length of the run of digits at the head of s.
RECURSIVE DigitRun(_)
DigitRun(s) == IF s # <<>> /\ Head(s) \in Digits THEN 1 + DigitRun(Tail(s)) ELSE 0

IsIdentChar(c) == c \in Letters \/ c \in Digits \/ c = "_"

\* Index (0-based) of the first character of s at or after i that satisfies
\* (want = TRUE) or does not satisfy (want = FALSE) IsIdentChar; Len(s) if none.
RECURSIVE ScanIdent(_, _, _)
ScanIdent(s, i, want) ==
    IF i >= Len(s) THEN Len(s)
    ELSE IF IsIdentChar(At0(s, i)) = want THEN i
    ELSE ScanIdent(s, i + 1, want)

KeyTag == <<"[", "k", "e", "y">>
ValueTag == <<"v", "a", "l", "u", "e">>

\* The second half of getNames: the variable of the path is replaced by t1/t2
\* (a type name) or prefixed with t1./t2. (a field name).
GetNamesVar(name, isType) ==
    LET startVar == ScanIdent(name, 0, TRUE)
        endVar == ScanIdent(name, startVar, FALSE)
    IN  IF isType
        THEN << Slice0(name, 0, startVar) \o <<"t", "1">> \o Slice0(name, endVar, Len(name)),
                Slice0(name, 0, startVar) \o <<"t", "2">> \o Slice0(name, endVar, Len(name)) >>
        ELSE << Slice0(name, 0, startVar) \o <<"t", "1", ".">> \o Slice0(name, startVar, Len(name)),
                Slice0(name, 0, startVar) \o <<"t", "2", ".">> \o Slice0(name, startVar, Len(name)) >>

\* getNames: the pair of expressions for the two sides of the position name.
GetNames(name, isType) ==
    LET i == LastIndex(name, KeyTag)
        j == IF i > -1 THEN DigitRun(Slice0(name, i + 4, Len(name))) ELSE 0
        closed == i > -1 /\ i + 4 + j < Len(name) /\ At0(name, i + 4 + j) = "]"
    IN  IF closed
        THEN LET keyNumber == Slice0(name, i + 4, i + 4 + j)
                 rest == Slice0(name, i + 4 + j + 1, Len(name))
                 start == FindLastUnpairedParantheses(Slice0(name, 0, i))
                 prefix == IF Contains(rest, ")") /\ start > -1
                           THEN Slice0(name, 0, start + 2) ELSE <<>>
             IN  << prefix \o ValueTag \o keyNumber \o <<"1">> \o rest,
                    prefix \o ValueTag \o keyNumber \o <<"2">> \o rest >>
        ELSE GetNamesVar(name, isType)

(***************************************************************************)
(* Types (go/types) and the world the generator reads                      *)
(***************************************************************************)
TInt == [k |-> "Basic", kind |-> "int"]
TByte == [k |-> "Basic", kind |-> "byte"]
TInterface == [k |-> "Interface"]
TChan == [k |-> "Chan"]
TSignature == [k |-> "Signature"]
TNamed(n, p) == [k |-> "Named", name |-> n, pkgPath |-> p]
TStruct(fs) == [k |-> "Struct", fields |-> fs]
TSlice(e) == [k |-> "Slice", elem |-> e]
TArray(e) == [k |-> "Array", elem |-> e]
TMap(key, e) == [k |-> "Map", key |-> key, elem |-> e]
TPointer(e) == [k |-> "Pointer", elem |-> e]
Field(n, t) == [name |-> n, typ |-> t]

\* Type{name, pkgPath}
MkType(n, p) == [name |-> n, pkgPath |-> p]

VARIABLES
    env,          \* what is on disk: packages, type definitions, the request
    pc,           \* start | parsing | emitting | done | called | fatal
    fatal,        \* which log.Fatalf ended the run ("" while it runs)
    defs,         \* Generator.defs: the package paths with a pkg object
    equals,       \* Generator.equals: Type -> code
    equalsOrder,  \* Generator.equalsOrder
    usedTypes,    \* Generator.usedTypes
    work,         \* the Go call stack: pending calls and returns, top last
    vals,         \* strings returned by finished calls and not yet consumed
    ret,          \* the last value parseType returned, with its arguments
    created,      \* every call of newCode so far: the type, and usedTypes then
    emitted,      \* what Generate has printed or written so far
    lastCall      \* the call of the root type's generated function and its result

vars == <<env, pc, fatal, defs, equals, equalsOrder, usedTypes, work, vals, ret,
          created, emitted, lastCall>>

g == <<defs, equals, equalsOrder, usedTypes>>

Top(s) == s[Len(s)]
Pop(s) == SubSeq(s, 1, Len(s) - 1)
Range(s) == {s[i] : i \in DOMAIN s}

\* The underlying type of a defined named type.
Underlying(T) == env.defs[T]

\* pkg.imports[path]: the local name, "" when absent or not renamed.
ImportName(home, path) ==
    IF path \in DOMAIN env.pkgs[home].imports THEN env.pkgs[home].imports[path] ELSE <<>>

(***************************************************************************)
(* Statements of generated code, one constructor per template              *)
(***************************************************************************)
St(k, f, a, b, c, d, body) ==
    [k |-> k, f |-> f, a |-> a, b |-> b, c |-> c, d |-> d, body |-> body]

\* func Equal<name>(t1, t2 <star><name>) bool {
StFunc(name, star) == St("func", name, star, <<>>, <<>>, <<>>, <<>>)
\* if t1 == t2 { return true }; if t1 == nil || t2 == nil { return false }
StSelfGuard == St("selfguard", <<>>, <<>>, <<>>, <<>>, <<>>, <<>>)
\* if !f(a, b) { return false }
StIfNot(f, a, b) == St("ifnot", f, a, b, <<>>, <<>>, <<>>)
\* if a != b { return false }
StIfNe(a, b) == St("ifne", <<>>, a, b, <<>>, <<>>, <<>>)
\* if len(a) != len(b) { return false }
StLen(a, b) == St("len", <<>>, a, b, <<>>, <<>>, <<>>)
\* if a != b { if a == nil || b == nil { return false }; body }
StGuard(a, b, body) == St("guard", <<>>, a, b, <<>>, <<>>, body)
\* for i := range a { body }
StFor(i, a, body) == St("for", i, a, <<>>, <<>>, <<>>, body)
\* for key := range a { if _, ok := b[key]; !ok { return false } }
StForKeys(key, a, b) == St("forkeys", key, a, b, <<>>, <<>>, <<>>)
\* for key, v1 := range a { if v2, ok := b[key]; !ok { return false } else { body } }
StForMap(key, v1, a, v2, b, body) == St("formap", key, a, b, v1, v2, body)
\* return true }
StReturn == St("return", <<>>, <<>>, <<>>, <<>>, <<>>, <<>>)

EqualTag == <<"E", "q", "u", "a", "l">>
DeepEqualName == <<"D", "e", "e", "p", "E", "q", "u", "a", "l">>

(***************************************************************************)
(* Generator helpers                                                       *)
(***************************************************************************)

\* newCode
NewCode(typeName, pkgPath) ==
    [typeName |-> typeName, pkg |-> pkgPath, code |-> <<>>, imports |-> {}]

\* build.Default.Import succeeds for the package.
CanImport(pkgPath) == env.pkgs[pkgPath].status # "noimport"

\* A GOROOT test that never matches.
InGorootNever(pkgPath) == FALSE

\* strings.HasPrefix(dir, getGOROOT())
InGoroot(pkgPath) == env.pkgs[pkgPath].goroot

\* isPointer without the basic types.
IsPointerNoBasic(typ) ==
    typ.k \in {"Map", "Slice", "Pointer", "Interface", "Chan", "Signature"}

\* isPointer
IsPointer(typ) ==
    typ.k \in {"Basic", "Map", "Slice", "Pointer", "Interface", "Chan", "Signature"}

\* Generator.findObj and pkg.findObj with pkg.check: "" when the object is
\* found, else the log.Fatalf that stops the program.
FindObjFatal(myType) ==
    IF myType.pkgPath \notin defs /\ ~CanImport(myType.pkgPath) THEN "noimport"
    ELSE IF myType.pkgPath \notin defs /\ env.pkgs[myType.pkgPath].status = "alias" THEN "alias"
    ELSE IF myType \notin DOMAIN env.defs THEN "notfound"
    ELSE ""

\* getReferenceUpdateImports recording on the first type of the stack.
GetReferenceUpdateImportsOnFirst(pkgPath, name, eq, used) ==
    LET currentType == Top(used)
        currentPackagePath == currentType.pkgPath
        known == ImportName(currentPackagePath, pkgPath)
        failed == pkgPath # currentPackagePath /\ known = <<>>
                  /\ pkgPath \notin defs /\ ~CanImport(pkgPath)
        referencedPackageName ==
            IF pkgPath = currentPackagePath THEN <<>>
            ELSE IF known # <<>> THEN known
            ELSE env.pkgs[pkgPath].name
        eq2 == [eq EXCEPT ![used[1]].imports = @ \cup {pkgPath}]
    IN  IF failed THEN [fatal |-> "noimport", name |-> name, equals |-> eq]
        ELSE IF referencedPackageName = <<>> THEN [fatal |-> "", name |-> name, equals |-> eq]
        ELSE IF referencedPackageName = <<".">> THEN [fatal |-> "", name |-> name, equals |-> eq2]
        ELSE [fatal |-> "", name |-> referencedPackageName \o <<".">> \o name, equals |-> eq2]

\* getReferenceUpdateImports, evaluated with the maps eq and the stack used:
\* the qualified name, the updated equals, and whether buildDefault failed.
GetReferenceUpdateImports(pkgPath, name, eq, used) ==
    LET currentType == Top(used)
        currentPackagePath == currentType.pkgPath
        known == ImportName(currentPackagePath, pkgPath)
        failed == pkgPath # currentPackagePath /\ known = <<>>
                  /\ pkgPath \notin defs /\ ~CanImport(pkgPath)
        referencedPackageName ==
            IF pkgPath = currentPackagePath THEN <<>>
            ELSE IF known # <<>> THEN known
            ELSE env.pkgs[pkgPath].name
        eq2 == [eq EXCEPT ![currentType].imports = @ \cup {pkgPath}]
    IN  IF failed THEN [fatal |-> "noimport", name |-> name, equals |-> eq]
        ELSE IF referencedPackageName = <<>> THEN [fatal |-> "", name |-> name, equals |-> eq]
        ELSE IF referencedPackageName = <<".">> THEN [fatal |-> "", name |-> name, equals |-> eq2]
        ELSE [fatal |-> "", name |-> referencedPackageName \o <<".">> \o name, equals |-> eq2]

\* getEqualFunctionName with interfaces ignored like channels.
GetEqualFunctionNameIgnoring(typ, eq, used) ==
    IF typ.k = "Named"
    THEN IF ~CanImport(typ.pkgPath)
         THEN [fatal |-> "noimport", ok |-> FALSE, call |-> <<>>, equals |-> eq]
         ELSE [fatal |-> "", ok |-> InGoroot(typ.pkgPath), call |-> <<>>, equals |-> eq]
    ELSE IF typ.k \in {"Interface", "Chan", "Signature"}
    THEN [fatal |-> "", ok |-> TRUE, call |-> <<>>, equals |-> eq]
    ELSE [fatal |-> "", ok |-> FALSE, call |-> <<>>, equals |-> eq]

\* getEqualFunctionName: ok (the type is custom), the call to use ("" to
\* ignore the type), the updated equals, and whether buildDefault failed.
GetEqualFunctionName(typ, eq, used) ==
    IF typ.k = "Named"
    THEN IF ~CanImport(typ.pkgPath)
         THEN [fatal |-> "noimport", ok |-> FALSE, call |-> <<>>, equals |-> eq]
         ELSE [fatal |-> "", ok |-> InGoroot(typ.pkgPath), call |-> <<>>, equals |-> eq]
    ELSE IF typ.k = "Interface"
    THEN LET r == GetReferenceUpdateImports("reflect", DeepEqualName, eq, used)
         IN  [fatal |-> r.fatal, ok |-> TRUE, call |-> r.name, equals |-> r.equals]
    ELSE IF typ.k \in {"Chan", "Signature"}
    THEN [fatal |-> "", ok |-> TRUE, call |-> <<>>, equals |-> eq]
    ELSE [fatal |-> "", ok |-> FALSE, call |-> <<>>, equals |-> eq]

\* getArgs
GetArgs(name1, name2, isPointer, isPointerReference) ==
    IF isPointer
    THEN IF isPointerReference
         THEN [a1 |-> <<"(", "*">> \o name1 \o <<")">>,
               a2 |-> <<"(", "*">> \o name2 \o <<")">>, isDereferenced |-> TRUE]
         ELSE [a1 |-> name1, a2 |-> name2, isDereferenced |-> FALSE]
    ELSE IF ~isPointerReference
         THEN [a1 |-> <<"(", "&">> \o name1 \o <<")">>,
               a2 |-> <<"(", "&">> \o name2 \o <<")">>, isDereferenced |-> FALSE]
         ELSE [a1 |-> name1, a2 |-> name2, isDereferenced |-> FALSE]

(***************************************************************************)
(* Frames of the call stack                                                *)
(***************************************************************************)
\* A call of parseType; unit is the type on top of usedTypes when it is made.
FParseType(name, typ, isType, isPointerReference, unit) ==
    [op |-> "parseType", name |-> name, typ |-> typ, isType |-> isType,
     ptrRef |-> isPointerReference, unit |-> unit]

\* What parseType returned last.
Returned(f, frag) ==
    [typ |-> f.typ, name |-> f.name, isType |-> f.isType, ptrRef |-> f.ptrRef,
     unit |-> f.unit, frag |-> frag]

NoRet ==
    [typ |-> [k |-> "none"], name |-> <<>>, isType |-> FALSE, ptrRef |-> FALSE,
     unit |-> [name |-> <<>>, pkgPath |-> ""], frag |-> <<>>]

(***************************************************************************)
(* Steps                                                                   *)
(***************************************************************************)

\* log.Fatalf: the process exits.
Die(reason) ==
    /\ pc' = "fatal"
    /\ fatal' = reason
    /\ UNCHANGED <<env, defs, equals, equalsOrder, usedTypes, work, vals, ret,
                   created, emitted, lastCall>>

\* A call of parseType returns frag to its caller.
Return(call, frag, eq) ==
    /\ vals' = Append(vals, frag)
    /\ work' = Pop(work)
    /\ ret' = Returned(call, frag)
    /\ equals' = eq
    /\ UNCHANGED <<env, pc, fatal, defs, equalsOrder, usedTypes, created, emitted, lastCall>>

\* A call replaces its frame by a return frame and the call it makes.
Descend(after, callee, eq) ==
    /\ work' = Pop(work) \o <<after, callee>>
    /\ equals' = eq
    /\ UNCHANGED <<env, pc, fatal, defs, equalsOrder, usedTypes, vals, ret, created,
                   emitted, lastCall>>

\* parseTypeDef up to its call of parseType: the code object is stored and
\* the type pushed before the body is parsed.
EnterTypeDef(myType, stack) ==
    /\ equals' = (myType :> NewCode(myType.name, myType.pkgPath)) @@ equals
    /\ created' = Append(created, [myType |-> myType, under |-> usedTypes])
    /\ usedTypes' = Append(usedTypes, myType)
    /\ defs' = defs \cup {myType.pkgPath}
    /\ work' = stack \o << [op |-> "parseTypeDef", myType |-> myType],
                           FParseType(myType.name, Underlying(myType), TRUE, FALSE, myType) >>
    /\ pc' = "parsing"
    /\ UNCHANGED <<env, fatal, equalsOrder, vals, ret, emitted, lastCall>>

\* Generator.parse, called by Generate.
Parse ==
    /\ pc = "start"
    /\ IF FindObjFatal(env.root) # ""
       THEN Die(FindObjFatal(env.root))
       ELSE EnterTypeDef(env.root, <<>>)

\* The finished type put first.
CompletedFirst(order, myType) == <<myType>> \o order

\* parseTypeDef, line 333: the type joins equalsOrder.
Completed(order, myType) == Append(order, myType)

\* parseTypeDef after parseType has returned the body.
ParseTypeDefReturn ==
    /\ pc = "parsing"
    /\ work # <<>>
    /\ Top(work).op = "parseTypeDef"
    /\ LET myType == Top(work).myType
           typ == Underlying(myType)
           head == IF IsPointer(typ)
                   THEN <<StFunc(myType.name, <<>>)>>
                   ELSE <<StFunc(myType.name, <<"*">>), StSelfGuard>>
           result == head \o Top(vals) \o <<StReturn>>
       IN  /\ equals' = [equals EXCEPT ![myType].code = result]
           /\ equalsOrder' = Completed(equalsOrder, myType)
           /\ usedTypes' = Pop(usedTypes)
           /\ vals' = Pop(vals)
           /\ work' = Pop(work)
           /\ pc' = IF Len(work) = 1 THEN "emitting" ELSE "parsing"
    /\ UNCHANGED <<env, fatal, defs, ret, created, emitted, lastCall>>

\* The frame on top is a call of parseType.
AtParseType == pc = "parsing" /\ work # <<>> /\ Top(work).op = "parseType"

\* parseType, lines 395-401: the type is custom.
ParseTypeCustom ==
    /\ AtParseType
    /\ LET f == Top(work)
           r == GetEqualFunctionName(f.typ, equals, usedTypes)
           names == GetNames(f.name, f.isType)
       IN  /\ r.fatal # "" \/ r.ok
           /\ IF r.fatal # "" THEN Die(r.fatal)
              ELSE IF r.call = <<>> THEN Return(f, <<>>, r.equals)
              ELSE Return(f, <<StIfNot(r.call, names[1], names[2])>>, r.equals)

\* The type is not custom: parseType reaches its switch.
AtSwitch(kind) ==
    /\ AtParseType
    /\ Top(work).typ.k = kind
    /\ LET r == GetEqualFunctionName(Top(work).typ, equals, usedTypes)
       IN  r.fatal = "" /\ ~r.ok

\* parseNamed with its test of the code object dropped.
HasCodeNever(myType) == FALSE

\* parseNamed testing only the types being parsed.
HasCodeInProgress(myType) == myType \in Range(usedTypes)

\* parseNamed, line 428: a code object exists for the type.
HasCode(myType) == myType \in DOMAIN equals

\* parseNamed after the code object exists: the call of the Equal function.
NamedCall(name1, name2, myType, isPointerReference, eq, used) ==
    LET r == GetReferenceUpdateImports(myType.pkgPath, EqualTag \o myType.name, eq, used)
        isPointer == IsPointer(Underlying(myType))
        args == GetArgs(name1, name2, isPointer, isPointerReference)
        funcCall == StIfNot(r.name, args.a1, args.a2)
    IN  [fatal |-> r.fatal, equals |-> r.equals,
         frag |-> IF args.isDereferenced
                  THEN <<StGuard(name1, name2, <<funcCall>>)>>
                  ELSE <<funcCall>>]

\* parseNamed for a type that has its code object: only the call is returned.
ParseNamedHit ==
    /\ AtSwitch("Named")
    /\ LET f == Top(work)
           names == GetNames(f.name, f.isType)
           myType == MkType(f.typ.name, f.typ.pkgPath)
           c == NamedCall(names[1], names[2], myType, f.ptrRef, equals, usedTypes)
       IN  /\ HasCode(myType)
           /\ IF c.fatal # "" THEN Die(c.fatal) ELSE Return(f, c.frag, c.equals)

\* parseNamed for a type without code object: parseTypeDef is called.
ParseNamedMiss ==
    /\ AtSwitch("Named")
    /\ LET f == Top(work)
           names == GetNames(f.name, f.isType)
           myType == MkType(f.typ.name, f.typ.pkgPath)
       IN  /\ ~HasCode(myType)
           /\ IF FindObjFatal(myType) # ""
              THEN Die(FindObjFatal(myType))
              ELSE EnterTypeDef(myType,
                       Pop(work) \o << [op |-> "parseNamed", call |-> f,
                                        name1 |-> names[1], name2 |-> names[2],
                                        myType |-> myType] >>)

\* parseNamed after parseTypeDef has returned.
ParseNamedReturn ==
    /\ pc = "parsing"
    /\ work # <<>>
    /\ Top(work).op = "parseNamed"
    /\ LET f == Top(work)
           c == NamedCall(f.name1, f.name2, f.myType, f.call.ptrRef, equals, usedTypes)
       IN  IF c.fatal # "" THEN Die(c.fatal) ELSE Return(f.call, c.frag, c.equals)

\* parseStruct: the loop over the fields; result holds what was written.
ParseStruct ==
    /\ AtSwitch("Struct")
    /\ work' = Pop(work) \o << [op |-> "parseStruct", call |-> Top(work), i |-> 0,
                                result |-> <<>>] >>
    /\ UNCHANGED <<env, pc, fatal, defs, equals, equalsOrder, usedTypes, vals, ret,
                   created, emitted, lastCall>>

\* One turn of parseStruct's loop: the last field's string is written, and
\* the next field parsed or the result returned.
ParseStructLoop ==
    /\ pc = "parsing"
    /\ work # <<>>
    /\ Top(work).op = "parseStruct"
    /\ LET f == Top(work)
           fields == f.call.typ.fields
           result == IF f.i > 0 THEN f.result \o Top(vals) ELSE f.result
           rest == IF f.i > 0 THEN Pop(vals) ELSE vals
       IN  IF f.i < Len(fields)
           THEN /\ work' = Pop(work)
                       \o << [f EXCEPT !.i = f.i + 1, !.result = result],
                             FParseType(fields[f.i + 1].name, fields[f.i + 1].typ,
                                        FALSE, FALSE, f.call.unit) >>
                /\ vals' = rest
                /\ UNCHANGED <<env, pc, fatal, defs, equals, equalsOrder, usedTypes,
                               ret, created, emitted, lastCall>>
           ELSE /\ vals' = Append(rest, result)
                /\ work' = Pop(work)
                /\ ret' = Returned(f.call, result)
                /\ UNCHANGED <<env, pc, fatal, defs, equals, equalsOrder, usedTypes,
                               created, emitted, lastCall>>

\* parseType for a basic type.
ParseBasic ==
    /\ AtSwitch("Basic")
    /\ LET f == Top(work)
           names == GetNames(f.name, f.isType)
       IN  Return(f, <<StIfNe(names[1], names[2])>>, equals)

IndexTag == <<"i">>
KeyName == <<"k", "e", "y">>

\* name[index]
Indexed(name, index) == name \o <<"[">> \o index \o <<"]">>

\* (*name)
Deref(name) == <<"(", "*">> \o name \o <<")">>

\* parseSlice up to its return or its call of parseType.
ParseSlice ==
    /\ AtSwitch("Slice")
    /\ LET f == Top(work)
           names == GetNames(f.name, f.isType)
           elem == f.typ.elem
           r == GetEqualFunctionName(elem, equals, usedTypes)
           b == GetReferenceUpdateImports("bytes", EqualTag, r.equals, usedTypes)
           indexName == IndexTag \o Itoa(FindNextUsableIndex(f.name, IndexTag))
           referenceName == Indexed(f.name, indexName)
       IN  IF r.fatal # "" THEN Die(r.fatal)
           ELSE IF r.ok /\ r.call = <<>>
           THEN Return(f, <<StLen(names[1], names[2])>>, r.equals)
           ELSE IF elem.k = "Basic" /\ elem.kind = "byte"
           THEN IF b.fatal # "" THEN Die(b.fatal)
                ELSE Return(f, <<StIfNot(b.name, names[1], names[2])>>, b.equals)
           ELSE Descend([op |-> "parseSlice", call |-> f, name1 |-> names[1],
                         name2 |-> names[2], indexName |-> indexName],
                        FParseType(referenceName, elem, f.isType, FALSE, f.unit), r.equals)

\* parseSlice after parseType has returned the loop's body.
ParseSliceReturn ==
    /\ pc = "parsing"
    /\ work # <<>>
    /\ Top(work).op = "parseSlice"
    /\ LET f == Top(work)
           result == << StLen(f.name1, f.name2), StFor(f.indexName, f.name1, Top(vals)) >>
       IN  /\ vals' = Append(Pop(vals), result)
           /\ work' = Pop(work)
           /\ ret' = Returned(f.call, result)
    /\ UNCHANGED <<env, pc, fatal, defs, equals, equalsOrder, usedTypes, created,
                   emitted, lastCall>>

\* parseArray up to its return or its call of parseType.
ParseArray ==
    /\ AtSwitch("Array")
    /\ LET f == Top(work)
           elem == f.typ.elem
           r == GetEqualFunctionName(elem, equals, usedTypes)
           name == IF f.isType /\ ~f.ptrRef THEN Deref(f.name) ELSE f.name
           names == GetNames(name, f.isType)
           indexName == IndexTag \o Itoa(FindNextUsableIndex(name, IndexTag))
           referenceName == Indexed(name, indexName)
       IN  IF r.fatal # "" THEN Die(r.fatal)
           ELSE IF r.ok /\ r.call = <<>> THEN Return(f, <<>>, r.equals)
           ELSE IF elem.k = "Basic"
           THEN Return(f, <<StIfNe(names[1], names[2])>>, r.equals)
           ELSE Descend([op |-> "parseArray", call |-> f, name1 |-> names[1],
                         indexName |-> indexName],
                        FParseType(referenceName, elem, f.isType, FALSE, f.unit), r.equals)

\* parseArray after parseType has returned the loop's body.
ParseArrayReturn ==
    /\ pc = "parsing"
    /\ work # <<>>
    /\ Top(work).op = "parseArray"
    /\ LET f == Top(work)
           result == << StFor(f.indexName, f.name1, Top(vals)) >>
       IN  /\ vals' = Append(Pop(vals), result)
           /\ work' = Pop(work)
           /\ ret' = Returned(f.call, result)
    /\ UNCHANGED <<env, pc, fatal, defs, equals, equalsOrder, usedTypes, created,
                   emitted, lastCall>>

\* parseMap up to its return or its call of parseType.
ParseMap ==
    /\ AtSwitch("Map")
    /\ LET f == Top(work)
           names == GetNames(f.name, f.isType)
           keyName == KeyName \o Itoa(FindNextUsableIndex(f.name, KeyName))
           newName == Indexed(f.name, keyName)
           values == GetNames(newName, f.isType)
           r == GetEqualFunctionName(f.typ.elem, equals, usedTypes)
       IN  IF r.fatal # "" THEN Die(r.fatal)
           ELSE IF r.ok /\ r.call = <<>>
           THEN Return(f, << StLen(names[1], names[2]),
                             StForKeys(keyName, names[1], names[2]) >>, r.equals)
           ELSE Descend([op |-> "parseMap", call |-> f, name1 |-> names[1],
                         name2 |-> names[2], keyName |-> keyName,
                         value1 |-> values[1], value2 |-> values[2]],
                        FParseType(newName, f.typ.elem, f.isType, FALSE, f.unit), r.equals)

\* parseMap after parseType has returned the comparison of the values.
ParseMapReturn ==
    /\ pc = "parsing"
    /\ work # <<>>
    /\ Top(work).op = "parseMap"
    /\ LET f == Top(work)
           result == << StLen(f.name1, f.name2),
                        StForMap(f.keyName, f.value1, f.name1, f.value2, f.name2,
                                 Top(vals)) >>
       IN  /\ vals' = Append(Pop(vals), result)
           /\ work' = Pop(work)
           /\ ret' = Returned(f.call, result)
    /\ UNCHANGED <<env, pc, fatal, defs, equals, equalsOrder, usedTypes, created,
                   emitted, lastCall>>

\* parsePointer up to its return or its call of parseType.
ParsePointer ==
    /\ AtSwitch("Pointer")
    /\ LET f == Top(work)
           names == GetNames(f.name, f.isType)
           elem == f.typ.elem
           r == GetEqualFunctionName(elem, equals, usedTypes)
       IN  IF r.fatal # "" THEN Die(r.fatal)
           ELSE IF r.ok /\ r.call = <<>>
           THEN Return(f, <<StGuard(names[1], names[2], <<>>)>>, r.equals)
           ELSE IF elem.k = "Named"
           THEN Descend([op |-> "parsePointer", call |-> f, named |-> TRUE,
                         name1 |-> names[1], name2 |-> names[2]],
                        FParseType(f.name, elem, f.isType, TRUE, f.unit), r.equals)
           ELSE Descend([op |-> "parsePointer", call |-> f, named |-> FALSE,
                         name1 |-> names[1], name2 |-> names[2]],
                        FParseType(Deref(f.name), elem, f.isType, TRUE, f.unit), r.equals)

\* parsePointer after parseType has returned.
ParsePointerReturn ==
    /\ pc = "parsing"
    /\ work # <<>>
    /\ Top(work).op = "parsePointer"
    /\ LET f == Top(work)
           result == IF f.named THEN Top(vals)
                     ELSE <<StGuard(f.name1, f.name2, Top(vals))>>
       IN  /\ vals' = Append(Pop(vals), result)
           /\ work' = Pop(work)
           /\ ret' = Returned(f.call, result)
    /\ UNCHANGED <<env, pc, fatal, defs, equals, equalsOrder, usedTypes, created,
                   emitted, lastCall>>

\* code.serialize: the file's path and its content.
Serialize(myType) ==
    LET c == equals[myType]
    IN  [path |-> <<c.pkg, c.typeName>>,
         typeName |-> c.typeName,
         package |-> env.pkgs[c.pkg].name,
         imports |-> {<<ImportName(c.pkg, path), path>> : path \in c.imports},
         code |-> c.code]

\* A loop that writes the finished types while parse still runs.
InEmitLoopEarly == pc \in {"parsing", "emitting"}

\* Generate, lines 238-240: the loop over equalsOrder runs once parse has
\* returned.
InEmitLoop == pc = "emitting"

\* Generate's loop: the next type of equalsOrder is printed or written.
Emit ==
    /\ InEmitLoop
    /\ Len(emitted) < Len(equalsOrder)
    /\ emitted' = Append(emitted, Serialize(equalsOrder[Len(emitted) + 1]))
    /\ UNCHANGED <<env, pc, fatal, defs, equals, equalsOrder, usedTypes, work, vals,
                   ret, created, lastCall>>

\* Generate's loop: ioutil.WriteFile fails.
EmitFails ==
    /\ InEmitLoop
    /\ Len(emitted) < Len(equalsOrder)
    /\ ~env.stdOut
    /\ Die("write")

\* Generate returns.
Finish ==
    /\ pc = "emitting"
    /\ Len(emitted) = Len(equalsOrder)
    /\ pc' = "done"
    /\ UNCHANGED <<env, fatal, defs, equals, equalsOrder, usedTypes, work, vals, ret,
                   created, emitted, lastCall>>

(***************************************************************************)
(* The generated functions, called on two instances of the root type       *)
(***************************************************************************)

\* The length of the slices and arrays of the instances in the root type's
\* own definition; inside the named types it refers to they hold one element.
SeqLen == 2
\* How many named types deep the instances are filled in: below that,
\* pointers are nil and slices and maps are empty.
Unfold == 2

VInt(n) == [k |-> "int", n |-> n]
VIface(n) == [k |-> "iface", n |-> n]
VOpaque == [k |-> "opaque"]
VStruct(f) == [k |-> "struct", f |-> f]
VSlice(e) == [k |-> "slice", e |-> e]
VArray(e) == [k |-> "array", e |-> e]
VMap(m) == [k |-> "map", m |-> m]
VNil == [k |-> "nil"]
VPtr(addr, v) == [k |-> "ptr", addr |-> addr, v |-> v]
\* What an expression that does not compile, or panics, stands for.
Invalid == [k |-> "invalid"]

Highest(S) == IF S = {} THEN 0 ELSE CHOOSE n \in S : \A o \in S : o <= n

IsRef(v) == v.k \in {"ptr", "nil"}
SameRef(a, b) == a.k = b.k /\ (a.k = "ptr" => a.addr = b.addr)

\* v.f, through a pointer to a struct as well.
Sel(v, f) ==
    LET s == IF v.k = "ptr" THEN v.v ELSE v
    IN  IF s.k = "struct" /\ f \in DOMAIN s.f THEN s.f[f] ELSE Invalid

\* v[i], through a pointer to an array as well.
Idx(v, i) ==
    LET s == IF v.k = "ptr" /\ v.v.k = "array" THEN v.v ELSE v
    IN  CASE s.k \in {"slice", "array"} ->
                IF i.k = "int" /\ i.n < Len(s.e) THEN s.e[i.n + 1] ELSE Invalid
          [] s.k = "map" -> IF i \in DOMAIN s.m THEN s.m[i] ELSE Invalid
          [] OTHER -> Invalid

\* *v
DerefV(v) == IF v.k = "ptr" THEN v.v ELSE Invalid

\* &v, for the operand written as text
AddrOf(v, text) == IF v.k = "invalid" THEN Invalid ELSE VPtr(text, v)

\* The value of the expression s: a variable, (*e), (&e), e.f or e[i].
RECURSIVE Eval(_, _)
Eval(s, bound) ==
    IF s = << >> THEN Invalid
    ELSE LET n == Len(s)
             cut == Highest({i \in 1..n : ~IsIdentChar(s[i])})
             lb == Highest({i \in 1..n : s[i] = "["})
         IN  CASE s[n] = "]" ->
                    IF lb < 2 THEN Invalid
                    ELSE Idx(Eval(SubSeq(s, 1, lb - 1), bound),
                             Eval(SubSeq(s, lb + 1, n - 1), bound))
               [] s[n] = ")" ->
                    IF n < 4 \/ s[1] # "(" THEN Invalid
                    ELSE IF s[2] = "*" THEN DerefV(Eval(SubSeq(s, 3, n - 1), bound))
                    ELSE IF s[2] = "&" THEN AddrOf(Eval(SubSeq(s, 3, n - 1), bound), s)
                    ELSE Invalid
               [] OTHER ->
                    IF cut = 0 THEN (IF s \in DOMAIN bound THEN bound[s] ELSE Invalid)
                    ELSE IF s[cut] = "." /\ 1 < cut /\ cut < n
                    THEN Sel(Eval(SubSeq(s, 1, cut - 1), bound), SubSeq(s, cut + 1, n))
                    ELSE Invalid

\* The identifier id is read in the expression e.
InExpr(id, e) ==
    \E i \in 1..(Len(e) - Len(id) + 1) :
       /\ SubSeq(e, i, i + Len(id) - 1) = id
       /\ i = 1 \/ (~IsIdentChar(e[i - 1]) /\ e[i - 1] # ".")
       /\ i + Len(id) > Len(e) \/ ~IsIdentChar(e[i + Len(id)])

\* The variable id is read in stmts, outside the loops that declare an id
\* of their own.
RECURSIVE Uses(_, _)
Uses(stmts, id) ==
    \E n \in 1..Len(stmts) :
       LET s == stmts[n]
       IN  \/ s.k # "func" /\ (InExpr(id, s.a) \/ InExpr(id, s.b))
           \/ id \notin {s.f, s.c, s.d} /\ Uses(s.body, id)

\* The compiler rejects a function with a variable that is declared and not
\* used: the index of a for loop, the two values of a loop over a map.
RECURSIVE DeclaredAreUsed(_)
DeclaredAreUsed(stmts) ==
    \A n \in 1..Len(stmts) :
       LET s == stmts[n]
       IN  /\ s.k = "for" => Uses(s.body, s.f)
           /\ s.k = "formap" => Uses(s.body, s.c) /\ Uses(s.body, s.d)
           /\ DeclaredAreUsed(s.body)

\* a != b compiles.
RECURSIVE CanCompare(_)
CanCompare(v) ==
    CASE v.k \in {"int", "iface", "ptr", "nil"} -> TRUE
      [] v.k = "array" -> \A i \in 1..Len(v.e) : CanCompare(v.e[i])
      [] v.k = "struct" -> \A f \in DOMAIN v.f : CanCompare(v.f[f])
      [] OTHER -> FALSE

Comparable(a, b) == (a.k = b.k \/ (IsRef(a) /\ IsRef(b))) /\ CanCompare(a) /\ CanCompare(b)

NotEqual(a, b) == IF IsRef(a) THEN ~SameRef(a, b) ELSE a # b

HasLen(v) == v.k \in {"slice", "array", "map"} \/ (v.k = "ptr" /\ v.v.k = "array")

LenOf(v) ==
    CASE v.k = "map" -> Cardinality(DOMAIN v.m)
      [] v.k = "ptr" -> Len(v.v.e)
      [] OTHER -> Len(v.e)

\* v as reflect.DeepEqual sees it: pointers by what they point to.
RECURSIVE Erase(_)
Erase(v) ==
    CASE v.k = "ptr" -> [k |-> "ptr", v |-> Erase(v.v)]
      [] v.k = "struct" -> VStruct([f \in DOMAIN v.f |-> Erase(v.f[f])])
      [] v.k \in {"slice", "array"} -> [k |-> v.k, e |-> [i \in 1..Len(v.e) |-> Erase(v.e[i])]]
      [] v.k = "map" -> VMap([x \in DOMAIN v.m |-> Erase(v.m[x])])
      [] OTHER -> v

\* A value of the type u.
Fits(u, v) ==
    CASE u.k = "Basic" -> v.k = "int"
      [] u.k = "Struct" ->
            v.k = "struct" /\ DOMAIN v.f = {u.fields[i].name : i \in 1..Len(u.fields)}
      [] u.k = "Slice" -> v.k = "slice"
      [] u.k = "Array" -> v.k = "array"
      [] u.k = "Map" -> v.k = "map"
      [] u.k = "Pointer" -> IsRef(v)
      [] u.k = "Interface" -> v.k # "invalid"
      [] OTHER -> v.k = "opaque"

\* An argument of a function declared for the type u, with or without *.
Accepts(u, star, v) == IF star THEN v.k = "nil" \/ (v.k = "ptr" /\ Fits(u, v.v)) ELSE Fits(u, v)

\* The name a file of package home uses for the package path.
Qualifier(home, path) ==
    IF ImportName(home, path) # << >> THEN ImportName(home, path) ELSE env.pkgs[path].name

T1 == <<"t", "1">>
T2 == <<"t", "2">>

RECURSIVE Exec(_, _, _)
RECURSIVE Step(_, _, _)
RECURSIVE Loop(_, _, _, _, _)
RECURSIVE Run(_, _, _)
RECURSIVE Invoke(_, _, _, _)

\* The call f(a, b) in a function of the code object cur: "next" when it
\* returns true.
Invoke(f, a, b, cur) ==
    LET dot == Highest({i \in 1..Len(f) : f[i] = "."})
        alias == SubSeq(f, 1, dot - 1)
        fn == SubSeq(f, dot + 1, Len(f))
        paths == IF dot = 0
                 THEN {cur.pkgPath} \cup { p \in equals[cur].imports :
                                             ImportName(cur.pkgPath, p) = <<".">> }
                 ELSE { p \in equals[cur].imports : Qualifier(cur.pkgPath, p) = alias }
        callees == { T \in DOMAIN equals : T.pkgPath \in paths /\ EqualTag \o T.name = fn }
    IN  IF a.k = "invalid" \/ b.k = "invalid" THEN "invalid"
        ELSE IF "reflect" \in paths /\ fn = DeepEqualName
        THEN (IF Erase(a) = Erase(b) THEN "next" ELSE "false")
        ELSE IF "bytes" \in paths /\ fn = EqualTag
        THEN (IF a.k # "slice" \/ b.k # "slice" THEN "invalid"
              ELSE IF a.e = b.e THEN "next" ELSE "false")
        ELSE IF callees = {} THEN "invalid"
        ELSE LET r == Run(CHOOSE T \in callees : TRUE, a, b)
             IN  IF r = "true" THEN "next" ELSE r

\* One statement: "true" or "false" when the function returns, "next" when
\* it goes on, "invalid" when the statement does not compile or panics.
Step(s, bound, cur) ==
    LET a == Eval(s.a, bound)
        b == Eval(s.b, bound)
    IN  CASE s.k = "selfguard" ->
               IF ~IsRef(bound[T1]) \/ ~IsRef(bound[T2]) THEN "invalid"
               ELSE IF SameRef(bound[T1], bound[T2]) THEN "true"
               ELSE IF bound[T1].k = "nil" \/ bound[T2].k = "nil" THEN "false"
               ELSE "next"
          [] s.k = "ifne" ->
               IF ~Comparable(a, b) THEN "invalid"
               ELSE IF NotEqual(a, b) THEN "false" ELSE "next"
          [] s.k = "ifnot" -> Invoke(s.f, a, b, cur)
          [] s.k = "len" ->
               IF ~HasLen(a) \/ ~HasLen(b) THEN "invalid"
               ELSE IF LenOf(a) # LenOf(b) THEN "false" ELSE "next"
          [] s.k = "guard" ->
               IF ~IsRef(a) \/ ~IsRef(b) THEN "invalid"
               ELSE IF SameRef(a, b) THEN "next"
               ELSE IF a.k = "nil" \/ b.k = "nil" THEN "false"
               ELSE Exec(s.body, bound, cur)
          [] s.k = "for" ->
               IF ~HasLen(a) THEN "invalid"
               ELSE IF a.k = "map"
               THEN LET R == { Exec(s.body, (s.f :> key) @@ bound, cur) : key \in DOMAIN a.m }
                    IN  IF "invalid" \in R THEN "invalid"
                        ELSE IF "false" \in R THEN "false" ELSE "next"
               ELSE Loop(s, 0, LenOf(a), bound, cur)
          [] s.k = "forkeys" ->
               IF a.k # "map" \/ b.k # "map" THEN "invalid"
               ELSE IF DOMAIN a.m \subseteq DOMAIN b.m THEN "next" ELSE "false"
          [] s.k = "formap" ->
               IF a.k # "map" \/ b.k # "map" THEN "invalid"
               ELSE LET R == { IF key \notin DOMAIN b.m THEN "false"
                               ELSE Exec(s.body,
                                         (s.f :> key) @@ (s.c :> a.m[key])
                                            @@ (s.d :> b.m[key]) @@ bound, cur) :
                               key \in DOMAIN a.m }
                    IN  IF "invalid" \in R THEN "invalid"
                        ELSE IF "false" \in R THEN "false" ELSE "next"
          [] s.k = "return" -> "true"
          [] OTHER -> "next"

\* The body of a for loop, from index n on.
Loop(s, n, len, bound, cur) ==
    IF n = len THEN "next"
    ELSE LET r == Exec(s.body, (s.f :> VInt(n)) @@ bound, cur)
         IN  IF r = "next" THEN Loop(s, n + 1, len, bound, cur) ELSE r

\* The statements in order.
Exec(stmts, bound, cur) ==
    IF stmts = << >> THEN "next"
    ELSE LET r == Step(Head(stmts), bound, cur)
         IN  IF r = "next" THEN Exec(Tail(stmts), bound, cur) ELSE r

\* Equal<T>(a, b)
Run(T, a, b) ==
    LET code == equals[T].code
        star == code[1].a = <<"*">>
    IN  IF ~Accepts(Underlying(T), star, a) \/ ~Accepts(Underlying(T), star, b)
        THEN "invalid"
        ELSE Exec(Tail(code), (T1 :> a) @@ (T2 :> b), T)

\* The generated files are compiled and the root type's function is called
\* on the instances a and b, by pointer if it takes pointers.
EqualRoot(a, b) ==
    IF \E T \in DOMAIN equals : ~DeclaredAreUsed(equals[T].code) THEN "invalid"
    ELSE IF equals[env.root].code[1].a = <<"*">>
    THEN Run(env.root, VPtr(<<"1">>, a), VPtr(<<"2">>, b))
    ELSE Run(env.root, a, b)

\* The indexes of a slice or array of an instance, fuel named types from the
\* end of the filling in.
Indexes(fuel) == 1..(IF fuel = Unfold THEN SeqLen ELSE 1)

\* The instance of typ on one side, every number 0.
RECURSIVE ZeroV(_, _, _)
ZeroV(typ, side, fuel) ==
    CASE typ.k = "Basic" -> VInt(0)
      [] typ.k = "Interface" -> VIface(0)
      [] typ.k = "Named" ->
            ZeroV(env.defs[MkType(typ.name, typ.pkgPath)], side,
                  IF fuel = 0 THEN 0 ELSE fuel - 1)
      [] typ.k = "Struct" ->
            VStruct([nm \in {typ.fields[i].name : i \in 1..Len(typ.fields)} |->
                       ZeroV((CHOOSE fd \in Range(typ.fields) : fd.name = nm).typ, side, fuel)])
      [] typ.k = "Slice" ->
            VSlice(IF fuel = 0 THEN << >>
                   ELSE [i \in Indexes(fuel) |-> ZeroV(typ.elem, side, fuel)])
      [] typ.k = "Array" -> VArray([i \in Indexes(fuel) |-> ZeroV(typ.elem, side, fuel)])
      [] typ.k = "Map" ->
            VMap(IF fuel = 0 THEN << >>
                 ELSE ZeroV(typ.key, side, fuel) :> ZeroV(typ.elem, side, fuel))
      [] typ.k = "Pointer" ->
            IF fuel = 0 THEN VNil ELSE VPtr(side, ZeroV(typ.elem, side, fuel))
      [] OTHER -> VOpaque

Variant(how, via, v) == [how |-> how, via |-> via, v |-> v]

\* The instances that differ from ZeroV(typ, <<"2">>, fuel) in one place: a
\* number that is compared ("leaf"), the length of a slice ("len"), the
\* length of a map ("maplen"), a key of a map ("key"), or a pointer that is
\* nil ("absent": on this side only; "bothabsent": on the other side too);
\* via holds the kinds of the types around the place.
RECURSIVE Variants(_, _)
Variants(typ, fuel) ==
    LET z == ZeroV(typ, <<"2">>, fuel)
        In(kind, e, v) == Variant(e.how, e.via \cup {kind}, v)
    IN  CASE typ.k = "Basic" -> {Variant("leaf", {}, VInt(1))}
          [] typ.k = "Named" ->
                IF env.pkgs[typ.pkgPath].goroot THEN {}
                ELSE Variants(env.defs[MkType(typ.name, typ.pkgPath)],
                              IF fuel = 0 THEN 0 ELSE fuel - 1)
          [] typ.k = "Struct" ->
                UNION { { In("Struct", e, VStruct((fd.name :> e.v) @@ z.f)) :
                             e \in Variants(fd.typ, fuel) } : fd \in Range(typ.fields) }
          [] typ.k = "Slice" ->
                IF fuel = 0 THEN {}
                ELSE {Variant("len", {"Slice"}, VSlice(Tail(z.e)))}
                     \cup UNION { { In("Slice", e, VSlice([z.e EXCEPT ![i] = e.v])) :
                                       e \in Variants(typ.elem, fuel) } : i \in Indexes(fuel) }
          [] typ.k = "Array" ->
                UNION { { In("Array", e, VArray([z.e EXCEPT ![i] = e.v])) :
                             e \in Variants(typ.elem, fuel) } : i \in Indexes(fuel) }
          [] typ.k = "Map" ->
                IF fuel = 0 THEN {}
                ELSE LET k0 == ZeroV(typ.key, <<"2">>, fuel)
                     IN  {Variant("maplen", {"Map"}, VMap(<< >>))}
                         \cup { Variant("key", {"Map"}, VMap(e.v :> z.m[k0])) :
                                   e \in { x \in Variants(typ.key, fuel) : x.how = "leaf" } }
                         \cup { In("Map", e, VMap(k0 :> e.v)) : e \in Variants(typ.elem, fuel) }
          [] typ.k = "Pointer" ->
                IF fuel = 0 THEN {}
                ELSE {Variant("absent", {"Pointer"}, VNil),
                      Variant("bothabsent", {"Pointer"}, VNil)}
                     \cup { In("Pointer", e, VPtr(<<"2">>, e.v)) :
                               e \in Variants(typ.elem, fuel) }
          [] OTHER -> {}

\* The instance v with its pointers those of the given side.
RECURSIVE Reside(_, _)
Reside(v, side) ==
    CASE v.k = "ptr" -> VPtr(side, Reside(v.v, side))
      [] v.k = "struct" -> VStruct([f \in DOMAIN v.f |-> Reside(v.f[f], side)])
      [] v.k \in {"slice", "array"} -> [k |-> v.k, e |-> [i \in 1..Len(v.e) |-> Reside(v.e[i], side)]]
      [] v.k = "map" -> VMap([x \in DOMAIN v.m |-> Reside(v.m[x], side)])
      [] OTHER -> v

\* The second instances the root type's function is called with: the same
\* as the first, or different in one place.
Inputs ==
    {Variant("same", {}, ZeroV(Underlying(env.root), <<"2">>, Unfold))}
       \cup Variants(Underlying(env.root), Unfold)

NoCall == [how |-> "none", via |-> {}, a |-> Invalid, b |-> Invalid, result |-> "none"]

\* The generated function of the root type is called, as the benchmarks do.
CallEqual ==
    /\ pc = "done"
    /\ \E in \in Inputs :
          LET a == IF in.how = "bothabsent" THEN Reside(in.v, <<"1">>)
                   ELSE ZeroV(Underlying(env.root), <<"1">>, Unfold)
          IN  lastCall' = [how |-> in.how, via |-> in.via, a |-> a, b |-> in.v,
                       result |-> EqualRoot(a, in.v)]
    /\ pc' = "called"
    /\ UNCHANGED <<env, fatal, defs, equals, equalsOrder, usedTypes, work, vals, ret,
                   created, emitted>>

(***************************************************************************)
(* Worlds: the packages and requests the generator is run on               *)
(***************************************************************************)

\* The nesting depth of the generated root types.
MaxDepth == 2

Pkg(name, status, goroot, imports) ==
    [name |-> name, status |-> status, goroot |-> goroot, imports |-> imports]

NoImports == << >>

TString == [k |-> "Basic", kind |-> "string"]

TypeX == MkType(<<"X">>, "p")
TypeY == MkType(<<"Y">>, "p")
TypeQY == MkType(<<"Y">>, "q")
TypeA == MkType(<<"A">>, "p")
TypeB == MkType(<<"B">>, "p")
TypeTime == MkType(<<"T", "i", "m", "e">>, "time")
TypeReader == MkType(<<"R", "e", "a", "d", "e", "r">>, "io")

Ref(T) == TNamed(T.name, T.pkgPath)

\* The standard library, as far as the generator meets it.
StdPkgs ==
    [path \in {"time", "io", "reflect", "bytes"} |->
        Pkg(CASE path = "time" -> <<"t", "i", "m", "e">>
              [] path = "io" -> <<"i", "o">>
              [] path = "reflect" -> <<"r", "e", "f", "l", "e", "c", "t">>
              [] OTHER -> <<"b", "y", "t", "e", "s">>,
            "ok", TRUE, NoImports)]

StdDefs ==
    (TypeTime :> TStruct(<<Field(<<"w", "a", "l", "l">>, TInt)>>))
    @@ (TypeReader :> TInterface)

\* A request: packages p (and q), their type definitions, the root type.
World(pkgs, typeDefs, root, stdOut) ==
    [pkgs |-> pkgs @@ StdPkgs, defs |-> typeDefs @@ StdDefs, root |-> root,
     stdOut |-> stdOut]

HomeOnly == "p" :> Pkg(<<"p">>, "ok", FALSE, NoImports)

WithQ(status, alias) ==
    ("p" :> Pkg(<<"p">>, "ok", FALSE, "q" :> alias))
    @@ ("q" :> Pkg(<<"q">>, status, FALSE, NoImports))

\* The ways package p imports package q, and whether q can be loaded.
QImports == { <<"ok", << >> >>, <<"ok", <<"q", "q">> >>, <<"alias", << >> >>,
              <<"noimport", << >> >> }

\* README.md: type Y struct{a int}; type X struct{a Y; b map[int]int}
ReadmeDefs ==
    (TypeY :> TStruct(<<Field(<<"a">>, TInt)>>))
    @@ (TypeX :> TStruct(<<Field(<<"a">>, Ref(TypeY)),
                           Field(<<"b">>, TMap(TInt, TInt))>>))

\* testdata: types Y and X
TestdataDefs ==
    (TypeY :> TStruct(<<Field(<<"F", "1">>, TInt)>>))
    @@ (TypeX :> TStruct(<<
          Field(<<"F", "1">>, TInt),
          Field(<<"F", "2">>, TString),
          Field(<<"F", "3">>, TSlice(TByte)),
          Field(<<"F", "4">>, TSlice(TInt)),
          Field(<<"F", "5">>, TArray(TInt)),
          Field(<<"F", "6">>, TMap(TInt, TInt)),
          Field(<<"F", "7">>, TMap(TInt, TSlice(TInt))),
          Field(<<"F", "8">>, TSlice(TMap(TInt, TInt))),
          Field(<<"F", "9">>, TPointer(TInt)),
          Field(<<"F", "1", "0">>, TPointer(TSlice(TInt))),
          Field(<<"F", "1", "1">>, TSlice(TMap(TInt, TPointer(TSlice(TInt))))),
          Field(<<"F", "1", "2">>, Ref(TypeY)),
          Field(<<"F", "1", "3">>, TSlice(TPointer(Ref(TypeY)))),
          Field(<<"F", "1", "4">>, TMap(Ref(TypeY), TInt)),
          Field(<<"F", "1", "5">>, TMap(TInt, TPointer(Ref(TypeY)))),
          Field(<<"F", "1", "6">>, TSlice(TSlice(TInt))),
          Field(<<"F", "1", "7">>, TMap(TInt, TMap(TInt, TInt)))>>))

\* testdata: types A and B
TestdataABDefs ==
    (TypeA :> TStruct(<<Field(<<"d">>, TSlice(TMap(TString, TSlice(TInt))))>>))
    @@ (TypeB :> TStruct(<<Field(<<"a">>, Ref(TypeA)), Field(<<"b">>, TInt)>>))

\* testdata's field F14 alone: Y is met only as the key of a map.
KeyOnlyDefs ==
    (TypeY :> TStruct(<<Field(<<"F", "1">>, TInt)>>))
    @@ (TypeX :> TStruct(<<Field(<<"F", "1", "4">>, TMap(Ref(TypeY), TInt))>>))

\* Types of two packages, with references to bytes and reflect.
TwoPackageDefs ==
    (TypeY :> TStruct(<<Field(<<"a">>, TInt)>>))
    @@ (TypeQY :> TStruct(<<Field(<<"a">>, TInt), Field(<<"e">>, TInterface)>>))
    @@ (TypeX :> TStruct(<<Field(<<"a">>, Ref(TypeY)),
                           Field(<<"b">>, TPointer(Ref(TypeQY))),
                           Field(<<"c">>, TSlice(TByte)),
                           Field(<<"d">>, TInterface)>>))

\* Anonymous structs below a field, a slice element and a map value.
AnonymousDefs ==
    (TypeX :> TStruct(<<Field(<<"b">>, TInt),
                        Field(<<"a">>, TStruct(<<Field(<<"b">>, TInt)>>))>>))
    @@ (TypeA :> TStruct(<<Field(<<"a">>,
                   TSlice(TStruct(<<Field(<<"b">>, TSlice(TInt))>>)))>>))
    @@ (TypeB :> TStruct(<<Field(<<"a">>, TInt),
                   Field(<<"m">>, TMap(TInt, TStruct(<<Field(<<"a">>, TInt)>>)))>>))

\* A pointer as a field, and as a field of an anonymous struct.
AnonymousPointerDefs ==
    TypeX :> TStruct(<<Field(<<"b">>, TPointer(TInt)),
                       Field(<<"a">>, TStruct(<<Field(<<"b">>, TPointer(TInt))>>))>>)

\* One field per rule 2-4 of the README: standard library types, an
\* interface, a channel, a function.
PolicyDefs ==
    TypeX :> TStruct(<<Field(<<"r">>, Ref(TypeReader)),
                       Field(<<"e">>, TInterface),
                       Field(<<"t">>, Ref(TypeTime)),
                       Field(<<"c">>, TChan),
                       Field(<<"f">>, TSignature)>>)

\* Requests taken from the repository's README and test data, and requests
\* that fail: a root that is not defined, packages that cannot be loaded.
KnownWorlds ==
    { World(HomeOnly, ReadmeDefs, TypeX, so) : so \in BOOLEAN }
    \cup { World(WithQ(qi[1], qi[2]), TwoPackageDefs, TypeX, FALSE) : qi \in QImports }
    \cup { World(HomeOnly, TestdataDefs, TypeX, FALSE),
           World(HomeOnly, TestdataABDefs, TypeB, FALSE),
           World(HomeOnly, TestdataABDefs, TypeA, TRUE),
           World(HomeOnly, ReadmeDefs, MkType(<<"Z">>, "p"), FALSE),
           World("p" :> Pkg(<<"p">>, "alias", FALSE, NoImports), ReadmeDefs, TypeX, FALSE),
           World("p" :> Pkg(<<"p">>, "noimport", FALSE, NoImports), ReadmeDefs, TypeX, FALSE),
           World(HomeOnly, KeyOnlyDefs, TypeX, FALSE),
           World(HomeOnly, PolicyDefs, TypeX, FALSE),
           World(HomeOnly, AnonymousDefs, TypeX, FALSE),
           World(HomeOnly, AnonymousDefs, TypeA, FALSE),
           World(HomeOnly, AnonymousDefs, TypeB, FALSE),
           World(HomeOnly, AnonymousPointerDefs, TypeX, FALSE),
           World(HomeOnly, ReadmeDefs, TypeTime, FALSE),
           World(HomeOnly, ReadmeDefs, TypeReader, TRUE) }

\* The types a generated root type is built from.
Leaves == {TInt, TByte, TInterface, TChan, TSignature, Ref(TypeX), Ref(TypeY),
           Ref(TypeQY), Ref(TypeTime), Ref(TypeReader)}

Wrap(S) ==
    UNION { { TSlice(t), TArray(t), TPointer(t), TMap(TInt, t),
              TStruct(<<Field(<<"a">>, t)>>) } : t \in S }

RECURSIVE TypesUpTo(_)
TypesUpTo(d) == IF d = 0 THEN Leaves ELSE Leaves \cup Wrap(TypesUpTo(d - 1))

\* The named type T occurs in typ.
RECURSIVE Mentions(_, _)
Mentions(typ, T) ==
    CASE typ.k = "Named" -> MkType(typ.name, typ.pkgPath) = T
      [] typ.k = "Struct" -> \E i \in 1..Len(typ.fields) : Mentions(typ.fields[i].typ, T)
      [] typ.k \in {"Slice", "Array", "Pointer"} -> Mentions(typ.elem, T)
      [] typ.k = "Map" -> Mentions(typ.key, T) \/ Mentions(typ.elem, T)
      [] OTHER -> FALSE

\* A value of typ holds a value of T inside itself: such a definition of T
\* is an invalid recursive type, which the type checker rejects.
RECURSIVE Embeds(_, _)
Embeds(typ, T) ==
    CASE typ.k = "Named" -> MkType(typ.name, typ.pkgPath) = T
      [] typ.k = "Struct" -> \E i \in 1..Len(typ.fields) : Embeds(typ.fields[i].typ, T)
      [] typ.k = "Array" -> Embeds(typ.elem, T)
      [] OTHER -> FALSE

\* The definitions of Y a generated root type is combined with.
YDefs ==
    { TStruct(<<Field(<<"a">>, TInt)>>),
      TStruct(<<Field(<<"x">>, TPointer(Ref(TypeX)))>>),
      TSlice(Ref(TypeY)),
      TInt,
      TInterface,
      TSignature }

\* type X <u> in package p, with Y in p defined as y and Y in q as a struct.
GeneratedWorld(u, y, qi) ==
    World(WithQ(qi[1], qi[2]),
          (TypeX :> u) @@ (TypeY :> y) @@ (TypeQY :> TStruct(<<Field(<<"a">>, TInt)>>)),
          TypeX, FALSE)

GeneratedWorlds ==
    { GeneratedWorld(u, y, qi) :
        u \in { t \in TypesUpTo(MaxDepth) : t.k # "Named" /\ ~Embeds(t, TypeX) },
        y \in YDefs, qi \in QImports }

\* A world in which the variations of Y and of q are those the root type meets.
Relevant(w) ==
    /\ w.defs[TypeY] # TStruct(<<Field(<<"a">>, TInt)>>) => Mentions(w.defs[TypeX], TypeY)
    /\ w.pkgs["q"] # Pkg(<<"q">>, "ok", FALSE, NoImports) \/ w.pkgs["p"].imports["q"] # << >>
          => Mentions(w.defs[TypeX], TypeQY)

Worlds == KnownWorlds \cup { w \in GeneratedWorlds : Relevant(w) }

Init ==
    /\ env \in Worlds
    /\ pc = "start"
    /\ fatal = ""
    /\ defs = {}
    /\ equals = << >>
    /\ equalsOrder = << >>
    /\ usedTypes = << >>
    /\ work = << >>
    /\ vals = << >>
    /\ ret = NoRet
    /\ created = << >>
    /\ emitted = << >>
    /\ lastCall = NoCall

\* The run of the generator: Generator.Generate from its call to its return
\* or to a log.Fatalf.
Generate ==
    \/ Parse
    \/ ParseTypeDefReturn
    \/ ParseTypeCustom
    \/ ParseNamedHit
    \/ ParseNamedMiss
    \/ ParseNamedReturn
    \/ ParseStruct
    \/ ParseStructLoop
    \/ ParseBasic
    \/ ParseSlice
    \/ ParseSliceReturn
    \/ ParseArray
    \/ ParseArrayReturn
    \/ ParseMap
    \/ ParseMapReturn
    \/ ParsePointer
    \/ ParsePointerReturn
    \/ Emit
    \/ EmitFails
    \/ Finish

Next == Generate \/ CallEqual

Spec == Init /\ [][Next]_vars

(***************************************************************************)
(* Properties                                                              *)
(***************************************************************************)

NoDuplicates(s) == \A i, j \in DOMAIN s : s[i] = s[j] => i = j

IsPrefix(s, t) == Len(s) <= Len(t) /\ SubSeq(t, 1, Len(s)) = s

IndexOf(s, x) == CHOOSE i \in DOMAIN s : s[i] = x

CreatedTypes == {created[i].myType : i \in DOMAIN created}

\* parse has returned: Generate is in or past its loop.
Parsed == pc \in {"emitting", "done", "called"} \/ (pc = "fatal" /\ fatal = "write")

\* The named types that occur in typ, below its fields, elements, referents
\* and map values, and with keys also below its map keys.
RECURSIVE NamedIn(_, _)
NamedIn(typ, keys) ==
    CASE typ.k = "Named" -> {MkType(typ.name, typ.pkgPath)}
      [] typ.k = "Struct" -> UNION {NamedIn(typ.fields[i].typ, keys) : i \in 1..Len(typ.fields)}
      [] typ.k \in {"Slice", "Array", "Pointer"} -> NamedIn(typ.elem, keys)
      [] typ.k = "Map" -> NamedIn(typ.elem, keys)
                          \cup (IF keys THEN NamedIn(typ.key, keys) ELSE {})
      [] OTHER -> {}

\* The types of S and the named types outside GOROOT reached from them.
RECURSIVE ReachFrom(_, _)
ReachFrom(S, keys) ==
    LET more == { T \in UNION {NamedIn(Underlying(U), keys) : U \in S} :
                    ~env.pkgs[T.pkgPath].goroot }
    IN  IF more \subseteq S THEN S ELSE ReachFrom(S \cup more, keys)

\* The types the walk visits: the root, and the named types outside GOROOT
\* reached through fields, elements, referents and map values.
Visited == ReachFrom({env.root}, FALSE)

\* A visited type refers back to itself, directly or through other types.
CyclicWorld ==
    \E T \in Visited :
       T \in ReachFrom({ U \in NamedIn(Underlying(T), FALSE) : ~env.pkgs[U.pkgPath].goroot },
                       FALSE)

\* The requests of the README and the test data, and the generated requests
\* with cyclic type definitions.
LiveInit == Init /\ (IF env \in KnownWorlds THEN TRUE ELSE CyclicWorld)

\* The program runs until it exits: a single thread, no waiting.
LiveSpec == LiveInit /\ [][Next]_vars /\ WF_vars(Generate)

\* Every package can be loaded and the root type is defined.
Loadable ==
    /\ \A path \in DOMAIN env.pkgs : env.pkgs[path].status = "ok"
    /\ env.root \in DOMAIN env.defs

\* C1: a code object is created at most once per type (a request for a type
\* that has one, finished or in progress, creates none), and usedTypes never
\* holds a type twice.
C1_CreatedOnce ==
    /\ \A i, j \in DOMAIN created : created[i].myType = created[j].myType => i = j
    /\ DOMAIN equals = CreatedTypes
    /\ NoDuplicates(usedTypes)

\* A call for a named type has returned while that type is still being parsed.
C1_Witness ==
    /\ pc = "parsing"
    /\ ret.typ.k = "Named"
    /\ MkType(ret.typ.name, ret.typ.pkgPath) \in Range(usedTypes)
    /\ ret.frag # << >>

C3_State ==
    /\ NoDuplicates(equalsOrder)
    /\ Range(equalsOrder) \subseteq CreatedTypes
    /\ Parsed => /\ Range(equalsOrder) = CreatedTypes
                 /\ Top(equalsOrder) = env.root
    /\ \A i \in DOMAIN created :
         \A A \in Range(created[i].under) :
            A \in Range(equalsOrder) =>
               /\ created[i].myType \in Range(equalsOrder)
               /\ IndexOf(equalsOrder, created[i].myType) < IndexOf(equalsOrder, A)
    /\ Len(emitted) <= Len(equalsOrder)
    /\ \A i \in DOMAIN emitted :
         /\ emitted[i].typeName = equalsOrder[i].name
         /\ emitted[i].code = equals[equalsOrder[i]].code
    /\ pc = "done" => Len(emitted) = Len(equalsOrder)

C3_Step == IsPrefix(equalsOrder, equalsOrder') /\ IsPrefix(emitted, emitted')

\* C3: equalsOrder only grows at its end; it holds every created type once
\* when parse has returned; a type created while another is being parsed
\* comes before it (the root is last); Generate emits in that order.
C3_CompletionOrder == [](C3_State) /\ [][C3_Step]_vars

\* The README's X and Y have been emitted, Y first.
C3_Witness ==
    /\ pc = "done"
    /\ equalsOrder = <<TypeY, TypeX>>
    /\ Len(emitted) = 2
    /\ emitted[1].typeName = <<"Y">>
    /\ created[1].myType = TypeX

\* C10: when the run dies because a type or a package cannot be resolved or
\* a package imports another under two names, nothing has been emitted; the
\* first emission comes after the whole synthesis.
C10_NothingEmittedOnFatal ==
    /\ fatal \in {"notfound", "noimport", "alias"} => emitted = << >>
    /\ emitted # << >> =>
          /\ work = << >>
          /\ usedTypes = << >>
          /\ \A T \in DOMAIN equals : T \in Range(equalsOrder) /\ equals[T].code # << >>

\* The run died on a package imported under two names after a unit was
\* completed.
C10_Witness ==
    /\ pc = "fatal"
    /\ fatal = "alias"
    /\ equalsOrder # << >>
    /\ usedTypes # << >>
    /\ emitted = << >>

\* The kind of a type: of its underlying type when it is named.
KindOf(typ) == IF typ.k = "Named" THEN env.defs[MkType(typ.name, typ.pkgPath)].k ELSE typ.k

IsForeignNamed(typ) == typ.k = "Named" /\ env.pkgs[typ.pkgPath].goroot

HasSuffix(s, suffix) ==
    Len(s) >= Len(suffix) /\ SubSeq(s, Len(s) - Len(suffix) + 1, Len(s)) = suffix

\* r is a return of exactly one call of DeepEqual on the two sides of the
\* position, and the unit that was current records the import of reflect.
IsDeepEqualCall(r) ==
    /\ Len(r.frag) = 1
    /\ r.frag[1].k = "ifnot"
    /\ r.frag[1].f = DeepEqualName \/ HasSuffix(r.frag[1].f, <<".">> \o DeepEqualName)
    /\ <<r.frag[1].a, r.frag[1].b>> = GetNames(r.name, r.isType)
    /\ r.unit.pkgPath # "reflect" => "reflect" \in equals[r.unit].imports

\* The call statement of a fragment returned for a named type.
CallOf(frag) == IF frag[1].k = "guard" THEN frag[1].body[1] ELSE frag[1]

\* r is a return of one call of T's Equal function, guarded or not.
IsEqualCall(r, T) ==
    /\ Len(r.frag) = 1
    /\ r.frag[1].k \in {"ifnot", "guard"}
    /\ r.frag[1].k = "guard" => Len(r.frag[1].body) = 1
    /\ CallOf(r.frag).k = "ifnot"
    /\ HasSuffix(CallOf(r.frag).f, EqualTag \o T.name)

\* C8 as stated: by the kind of the type, named or not, foreign or not.
C8_Original ==
    /\ ret.typ.k # "none" =>
          /\ IsForeignNamed(ret.typ)
               /\ KindOf(ret.typ) \notin {"Interface", "Chan", "Signature"}
                => ret.frag = << >>
          /\ KindOf(ret.typ) = "Interface" => IsDeepEqualCall(ret)
          /\ KindOf(ret.typ) \in {"Chan", "Signature"} => ret.frag = << >>
    /\ \A T \in DOMAIN equals :
          env.pkgs[T.pkgPath].goroot => env.defs[T].k \in {"Interface", "Chan", "Signature"}

\* C8 amended: the policy goes by the form of the type at the position.  A
\* named type of a GOROOT package yields nothing, whatever its underlying
\* kind, and has no code object unless it is the root; an unnamed interface
\* yields one call of DeepEqual on the two sides, recorded on the current
\* unit; an unnamed channel or function type yields nothing; any other named
\* type, interfaces, channels and functions included, has a code object and
\* yields a call of its Equal function.
C8_Policy ==
    /\ IsForeignNamed(ret.typ) => ret.frag = << >>
    /\ ret.typ.k = "Interface" => IsDeepEqualCall(ret)
    /\ ret.typ.k \in {"Chan", "Signature"} => ret.frag = << >>
    /\ ret.typ.k = "Named" /\ ~IsForeignNamed(ret.typ) =>
          /\ MkType(ret.typ.name, ret.typ.pkgPath) \in DOMAIN equals
          /\ IsEqualCall(ret, MkType(ret.typ.name, ret.typ.pkgPath))
    /\ \A T \in DOMAIN equals : env.pkgs[T.pkgPath].goroot => T = env.root

\* The field of type io.Reader has yielded nothing and the field of type
\* interface{} the call of DeepEqual.
C8_Witness ==
    /\ pc = "parsing"
    /\ ret.typ.k = "Interface"
    /\ IsDeepEqualCall(ret)
    /\ Top(work).op = "parseStruct"
    /\ Top(work).call.typ.fields[1].typ = Ref(TypeReader)
    /\ Top(work).i = 2
    /\ Top(work).result = << >>

\* The form of the argument arg passed for the position whose side
\* expression is name: the position holds a T, or a *T when it is a pointer
\* reference.
ArgForm(arg, name, isPointerReference) ==
    IF arg = name THEN (IF isPointerReference THEN "pointer" ELSE "value")
    ELSE IF arg = <<"(", "&">> \o name \o <<")">>
         THEN (IF isPointerReference THEN "pointer to pointer" ELSE "pointer")
    ELSE IF arg = <<"(", "*">> \o name \o <<")">>
         THEN (IF isPointerReference THEN "value" ELSE "not a pointer")
    ELSE "other"

\* Every finished function of a kind in byPointer takes pointers and starts
\* with the test of identity and nil; every other takes its subjects as they
\* are; and the call returned last passes what the callee takes.
Convention(byPointer) ==
    /\ \A T \in Range(equalsOrder) :
          LET c == equals[T].code
          IN  IF Underlying(T).k \in byPointer
              THEN c[1] = StFunc(T.name, <<"*">>) /\ c[2] = StSelfGuard
              ELSE c[1] = StFunc(T.name, << >>) /\ c[2].k # "selfguard"
    /\ ret.typ.k = "Named" /\ ~IsForeignNamed(ret.typ) =>
          LET T == MkType(ret.typ.name, ret.typ.pkgPath)
              names == GetNames(ret.name, ret.isType)
              call == CallOf(ret.frag)
              form == IF Underlying(T).k \in {"Struct", "Array"} THEN "pointer" ELSE "value"
          IN  /\ ArgForm(call.a, names[1], ret.ptrRef) = form
              /\ ArgForm(call.b, names[2], ret.ptrRef) = form

RECURSIVE NoReuse(_, _)
NoReuse(stmts, used) ==
    \A n \in 1..Len(stmts) :
       LET s == stmts[n]
       IN  CASE s.k = "for" -> s.f \notin used /\ NoReuse(s.body, used \cup {s.f})
             [] s.k = "formap" ->
                   /\ {s.f, s.c, s.d} \cap used = {}
                   /\ Cardinality({s.f, s.c, s.d}) = 3
                   /\ NoReuse(s.body, used \cup {s.f, s.c, s.d})
             [] s.k = "forkeys" -> s.f \notin used
             [] s.k = "guard" -> NoReuse(s.body, used)
             [] OTHER -> TRUE

\* The loops that parseSlice, parseArray and parseMap are emitting around the
\* frame at position j of the call stack, inside the same function.
Enclosing(j) ==
    { k \in 1..(j - 1) :
         /\ work[k].op \in {"parseSlice", "parseArray", "parseMap"}
         /\ \A l \in (k + 1)..(j - 1) : work[l].op # "parseTypeDef" }

\* The number in the identifier that the loop of frame f declares.
LoopNumber(f) ==
    IF f.op = "parseMap"
    THEN Atoi(SubSeq(f.keyName, Len(KeyName) + 1, Len(f.keyName)))
    ELSE Atoi(SubSeq(f.indexName, Len(IndexTag) + 1, Len(f.indexName)))

SameFamily(f, h) == (f.op = "parseMap") = (h.op = "parseMap")


\* C7 as stated: in every finished function no loop reuses an identifier of
\* a loop around it, and every loop being emitted is numbered one more than
\* the highest number of its family among the loops around it.
C7_Original ==
    /\ \A T \in Range(equalsOrder) : NoReuse(equals[T].code, {})
    /\ \A j \in 1..Len(work) :
          work[j].op \in {"parseSlice", "parseArray", "parseMap"} =>
             LoopNumber(work[j]) =
                1 + Highest({ LoopNumber(work[k]) :
                                 k \in { e \in Enclosing(j) : SameFamily(work[e], work[j]) } })

(***************************************************************************)
(* C4, C5, C6: what the generated functions decide                         *)
(***************************************************************************)

\* What a correct comparison returns for the call.
Expected(c) == IF c.how \in {"same", "bothabsent"} THEN "true" ELSE "false"

\* The root type has a place of the given kind whose difference is compared.
HasPlace(kind) == \E in \in Inputs : kind \in in.via

\* C4 as stated: the function generated for a struct type of the home
\* package returns true on two instances with the same fields and false on
\* two instances that differ in exactly one number.
C4_Original ==
    pc = "called" /\ Underlying(env.root).k = "Struct" /\ ~env.pkgs[env.root.pkgPath].goroot
       /\ lastCall.how \in {"same", "leaf"}
    => lastCall.result = Expected(lastCall)

\* Every loop over a map that compares values reads the value bound from the
\* first map and the value bound from the lookup in the second.
RECURSIVE ComparesBoundValues(_)
ComparesBoundValues(stmts) ==
    \A n \in 1..Len(stmts) :
       LET s == stmts[n]
       IN  /\ s.k = "formap" /\ s.body # << >> => Uses(s.body, s.c) /\ Uses(s.body, s.d)
           /\ ComparesBoundValues(s.body)

\* C5 as stated: instances with the same maps compare equal; instances that
\* differ in the length of a map, in a key of a map of the same length, or in
\* the value of a shared key compare unequal; the values compared are the two
\* bound by the loop.
C5_Original ==
    /\ pc = "called" /\ "Map" \in lastCall.via => lastCall.result = Expected(lastCall)
    /\ pc = "called" /\ lastCall.how = "same" /\ HasPlace("Map") => lastCall.result = "true"
    /\ \A T \in Range(equalsOrder) : ComparesBoundValues(equals[T].code)

\* parseSlice compares nothing of the elements: a named type of GOROOT, a
\* channel, a function.
Skipped(elem) == IsForeignNamed(elem) \/ elem.k \in {"Chan", "Signature"}

\* C6 as stated: the fragment of a slice is the test of the lengths alone
\* when the elements are skipped, one call of bytes.Equal with the import
\* recorded when they are bytes, and otherwise the test of the lengths and a
\* loop over the indexes; instances with the same slices compare equal, and
\* instances that differ in the length of a slice or at one index compare
\* unequal.
C6_Original ==
    /\ ret.typ.k = "Slice" =>
          LET names == GetNames(ret.name, ret.isType)
              frag == ret.frag
          IN  IF Skipped(ret.typ.elem) THEN frag = <<StLen(names[1], names[2])>>
              ELSE IF ret.typ.elem = TByte
              THEN /\ Len(frag) = 1
                   /\ frag[1].k = "ifnot"
                   /\ HasSuffix(frag[1].f, EqualTag)
                   /\ <<frag[1].a, frag[1].b>> = names
                   /\ "bytes" \in equals[ret.unit].imports
              ELSE /\ Len(frag) = 2
                   /\ frag[1] = StLen(names[1], names[2])
                   /\ frag[2].k = "for"
                   /\ frag[2].a = names[1]
    /\ pc = "called" /\ "Slice" \in lastCall.via => lastCall.result = Expected(lastCall)
    /\ pc = "called" /\ lastCall.how = "same" /\ HasPlace("Slice") => lastCall.result = "true"

(***************************************************************************)
(* C11: the life of a code object                                          *)
(***************************************************************************)

\* Where the code object of T stands, told from the generator's maps alone:
\* parseTypeDef has not been called for it, has been called and has not
\* reached line 333, or has appended it to equalsOrder.
PhaseOf(T, eq, order) ==
    IF T \notin DOMAIN eq THEN "Unstarted"
    ELSE IF T \in Range(order) THEN "Complete"
    ELSE "InProgress"

Phase(T) == PhaseOf(T, equals, equalsOrder)

C11_State ==
    /\ Range(equalsOrder) \subseteq DOMAIN equals
    /\ \A T \in DOMAIN equals \cup Range(usedTypes) :
          /\ (T \in Range(usedTypes)) <=> (Phase(T) = "InProgress")
          /\ (equals[T].code # << >>) <=> (Phase(T) = "Complete")

C11_Step ==
    \A T \in DOMAIN equals' :
       LET before == Phase(T)
           after == PhaseOf(T, equals', equalsOrder')
       IN  /\ before = "Unstarted" =>
                 /\ after = "InProgress"
                 /\ usedTypes' = Append(usedTypes, T)
                 /\ equals'[T] = NewCode(T.name, T.pkgPath)
           /\ before = "InProgress" => after \in {"InProgress", "Complete"}
           /\ before = "InProgress" /\ after = "InProgress" =>
                 /\ equals'[T].code = << >>
                 /\ equals'[T] # equals[T] => T = Top(usedTypes) /\ usedTypes' = usedTypes
           /\ before = "InProgress" /\ after = "Complete" =>
                 /\ T = Top(usedTypes)
                 /\ usedTypes' = Pop(usedTypes)
                 /\ equalsOrder' = Append(equalsOrder, T)
                 /\ equals'[T].code # << >>
                 /\ equals'[T].imports = equals[T].imports
           /\ before = "Complete" =>
                 /\ after = "Complete"
                 /\ equals'[T] = equals[T]
                 /\ T \notin Range(usedTypes')

\* C11: a code object goes from unstarted to in progress to complete and
\* never back.  It is in progress exactly while its type is on usedTypes; it
\* becomes complete in the step that stores its body, appends its type to
\* equalsOrder and pops it; once complete its body and its imports never
\* change and its type is never pushed again.
C11_Lifecycle == [](C11_State) /\ [][C11_Step]_vars

\* Y of package q is complete, with its body and its import of reflect,
\* while X, which is in progress, has recorded an import after that.
C11_Witness ==
    /\ pc = "parsing"
    /\ Phase(TypeQY) = "Complete"
    /\ equals[TypeQY].imports = {"reflect"}
    /\ usedTypes = <<TypeX>>
    /\ Phase(TypeX) = "InProgress"
    /\ equals[TypeX].imports = {"q", "bytes"}

(***************************************************************************)
(* C12: the imports a code object records                                  *)
(***************************************************************************)

\* The functions called in stmts.
RECURSIVE CallsIn(_)
CallsIn(stmts) ==
    UNION { (IF stmts[n].k = "ifnot" THEN {stmts[n].f} ELSE {}) \cup CallsIn(stmts[n].body) :
               n \in 1..Len(stmts) }

\* The package name in front of a called function, "" if there is none.
QualifierOf(f) == SubSeq(f, 1, Highest({i \in 1..Len(f) : f[i] = "."}) - 1)

C12_State ==
    /\ \A T \in DOMAIN equals : T.pkgPath \notin equals[T].imports
    /\ \A T \in Range(equalsOrder) :
          \A f \in CallsIn(equals[T].code) :
             QualifierOf(f) # << >> =>
                \E path \in equals[T].imports : Qualifier(T.pkgPath, path) = QualifierOf(f)
    /\ ret.typ.k = "Named" /\ ~IsForeignNamed(ret.typ) =>
          IF ret.typ.pkgPath = ret.unit.pkgPath
          THEN CallOf(ret.frag).f = EqualTag \o ret.typ.name
          ELSE /\ ret.typ.pkgPath \in equals[ret.unit].imports
               /\ QualifierOf(CallOf(ret.frag).f) = Qualifier(ret.unit.pkgPath, ret.typ.pkgPath)

C12_Step ==
    /\ \A T \in DOMAIN equals' \ DOMAIN equals : equals'[T].imports = {}
    /\ \A T \in DOMAIN equals :
          equals'[T].imports # equals[T].imports =>
             /\ usedTypes # << >>
             /\ T = Top(usedTypes)
             /\ usedTypes' = usedTypes
             /\ equals[T].imports \subseteq equals'[T].imports
             /\ \E path \in DOMAIN env.pkgs :
                   /\ equals'[T].imports = equals[T].imports \cup {path}
                   /\ path # T.pkgPath
                   /\ path \notin {"reflect", "bytes"} =>
                         /\ ret'.typ.k = "Named"
                         /\ ret'.typ.pkgPath = path
                         /\ ret'.unit = T
                         /\ MkType(ret'.typ.name, path) \in Range(equalsOrder)
                         /\ path \notin equals[MkType(ret'.typ.name, path)].imports

\* C12: a step that records an import adds one package, other than the
\* unit's own, to the imports of the type on top of usedTypes and leaves the
\* imports of every other code object as they are.  The package of a named
\* type of another package is recorded, when the call is returned, on the
\* calling unit, the called type being complete and popped; a call of a type
\* of the unit's own package is unqualified and records nothing.  Every
\* qualified function called in a complete body has its package among the
\* imports of that code object.
C12_ImportsOfTop == [](C12_State) /\ [][C12_Step]_vars

\* The call of q's EqualY has just been returned into X: X has recorded q
\* and nothing for the Y of its own package, and q's Y only reflect.
C12_Witness ==
    /\ pc = "parsing"
    /\ ret.typ = Ref(TypeQY)
    /\ ret.unit = TypeX
    /\ usedTypes = <<TypeX>>
    /\ equals[TypeX].imports = {"q"}
    /\ TypeY \in Range(equalsOrder)
    /\ equals[TypeQY].imports = {"reflect"}
    /\ QualifierOf(CallOf(ret.frag).f) = <<"q">>

(***************************************************************************)
(* C13: pointers                                                           *)
(***************************************************************************)

\* The expression e reads (*name).
Dereferences(e, name) ==
    \E i \in 1..(Len(e) - Len(name) - 2) : SubSeq(e, i, i + Len(name) + 2) = Deref(name)

\* stmts dereference name1 or name2 outside the body of a test that the two
\* are different and neither is nil.
RECURSIVE DerefOutsideGuard(_, _, _)
DerefOutsideGuard(stmts, name1, name2) ==
    \E n \in 1..Len(stmts) :
       LET s == stmts[n]
       IN  ~(s.k = "guard" /\ s.a = name1 /\ s.b = name2)
           /\ \/ \E e \in {s.a, s.b} : Dereferences(e, name1) \/ Dereferences(e, name2)
              \/ DerefOutsideGuard(s.body, name1, name2)

\* What parseType has returned for a pointer: the test of identity and nil
\* alone when the referent is skipped; the call of the referent's function on
\* the two pointers when that function takes pointers and tests them itself;
\* otherwise one test of identity and nil around everything that reads the
\* referents.
PointerFragment(r) ==
    LET names == GetNames(r.name, r.isType)
        elem == r.typ.elem
    IN  IF Skipped(elem) THEN r.frag = <<StGuard(names[1], names[2], << >>)>>
        ELSE IF elem.k = "Named" /\ ~IsPointer(env.defs[MkType(elem.name, elem.pkgPath)])
        THEN /\ Len(r.frag) = 1
             /\ r.frag[1].k = "ifnot"
             /\ <<r.frag[1].a, r.frag[1].b>> = names
        ELSE /\ Len(r.frag) = 1
             /\ r.frag[1].k = "guard"
             /\ <<r.frag[1].a, r.frag[1].b>> = names
             /\ ~DerefOutsideGuard(r.frag, names[1], names[2])
             /\ elem.k = "Named" =>
                   /\ Len(r.frag[1].body) = 1
                   /\ r.frag[1].body[1].k = "ifnot"
                   /\ r.frag[1].body[1].a = Deref(names[1])
                   /\ r.frag[1].body[1].b = Deref(names[2])

\* Every pointer position yields its fragment, and every finished function
\* that takes pointers starts with the test of identity and nil.
C13_Guards ==
    /\ ret.typ.k = "Pointer" => PointerFragment(ret)
    /\ \A T \in Range(equalsOrder) :
          IF IsPointer(Underlying(T))
          THEN ~DerefOutsideGuard(equals[T].code, T1, T2)
          ELSE equals[T].code[2] = StSelfGuard

\* C13 as stated: at every pointer the emitted code takes the same pointer
\* on both sides (nil on both included) as equal and a nil on one side only
\* as unequal, and reads what a pointer refers to only where both sides have
\* been tested; a call of a function that takes values is made on the
\* dereferenced pointers inside that test, and a function that takes pointers
\* is passed the pointers and tests them itself.
C13_Original ==
    /\ C13_Guards
    /\ pc = "called" /\ lastCall.how = "absent" => lastCall.result = "false"
    /\ pc = "called" /\ lastCall.how = "bothabsent" => lastCall.result = "true"

(***************************************************************************)
(* C14: dereferences                                                       *)
(***************************************************************************)

\* The position r was returned for is the subject of the function being
\* generated: the parameter itself, which is a pointer when the type is an
\* array.
IsSubject(r) == r.isType /\ r.name = r.unit.name

\* C14 as stated: every dereference is emitted on a pointer.  Only
\* parsePointer marks a position as a pointer reference, and only for its
\* referent; a call dereferences its arguments only at such a position; and
\* parseArray compares or ranges over the dereferenced name only when the
\* array is the subject of the function, never when it is an element, a map
\* value or a referent inside a named slice, map or pointer type.
C14_Original ==
    /\ \A j \in 1..Len(work) :
          work[j].op = "parseType" /\ work[j].ptrRef =>
             /\ j > 1
             /\ work[j - 1].op = "parsePointer"
             /\ work[j - 1].call.typ.elem = work[j].typ
    /\ ret.typ.k = "Named" /\ ~IsForeignNamed(ret.typ) =>
          LET names == GetNames(ret.name, ret.isType)
          IN  CallOf(ret.frag).a = Deref(names[1]) \/ CallOf(ret.frag).b = Deref(names[2])
                 => ret.ptrRef
    /\ ret.typ.k = "Array" /\ ret.frag # << >> =>
          LET plain == GetNames(ret.name, ret.isType)
              dereferenced == GetNames(Deref(ret.name), ret.isType)
          IN  ret.frag[1].a = IF IsSubject(ret) THEN dereferenced[1] ELSE plain[1]

(***************************************************************************)
(* C15: the paths of the fields of a struct                                *)
(***************************************************************************)

\* The expression e reads the expression part.
Reads(e, part) ==
    \E i \in 1..(Len(e) - Len(part) + 1) : SubSeq(e, i, i + Len(part) - 1) = part

\* The two expressions that denote the position of the call f of parseType:
\* the parameters when it is the subject of the function, else what getNames
\* makes of its name.
SidesOf(f) == IF f.isType /\ f.name = f.unit.name THEN <<T1, T2>> ELSE GetNames(f.name, f.isType)

\* The two expressions that denote the field named field of the struct at
\* the position of the call f.
FieldSides(f, field) ==
    <<SidesOf(f)[1] \o <<".">> \o field, SidesOf(f)[2] \o <<".">> \o field>>

\* C15 as stated: when parseStruct has got the fragment of a field back, the
\* fragment is written on the field's own position on each side: the position
\* of the struct (field names, indexes, keys or bound values, dereferences)
\* followed by the field's name, also when the struct is not the subject of
\* the function.
C15_Original ==
    pc = "parsing" /\ work # << >> /\ Top(work).op = "parseStruct" /\ Top(work).i > 0
       /\ ret.frag # << >>
    => LET struct == Top(work).call
           field == struct.typ.fields[Top(work).i].name
       IN  /\ GetNames(ret.name, ret.isType) = FieldSides(struct, field)
           /\ Reads(ret.frag[1].a, FieldSides(struct, field)[1])
           /\ ret.frag[1].b # << >> => Reads(ret.frag[1].b, FieldSides(struct, field)[2])
====
